---------------------------- MODULE Spec2Model ----------------------------
(***************************************************************************)
(* A model of generate_deck.py, the oracle-card deck generator.            *)
(*                                                                         *)
(* Text.  A Python str is modelled as a sequence of characters, one        *)
(* element per code point, so that Len is Python's len().  An ASCII        *)
(* character is the one-character string holding it; a non-ASCII code      *)
(* point is named "U+XXXX" (still one element, hence length one).          *)
(*                                                                         *)
(* Values.  A Python value that the program tests with isinstance or for   *)
(* truthiness is a record [type, val]: type "str" (val a character         *)
(* sequence), "list" (val a sequence of character sequences), "dict" (val   *)
(* the items in order) or "int".                                           *)
(*                                                                         *)
(* Randomness.  Every function that consumes the random source is an       *)
(* operator giving the SET of results the call can produce; the action     *)
(* that calls it picks one of them.                                        *)
(***************************************************************************)
EXTENDS Integers, Sequences, FiniteSets, TLC

VARIABLES
    \* ---- a run of main() -------------------------------------------------
    pc,          \* position of main()
    fileState,   \* what is at config_path: no file, a file that is not JSON, or
                 \* a file holding a configuration
    cfg,         \* the loaded configuration (a function key -> JSON value)
    card_count,  \* the value returned by _prompt_for_card_count
    title_pool,  \* the value returned by build_title_pool
    cards,       \* the list `cards` of main()
    drawLog,     \* the calls made on the random source / field selector, in order
    output,      \* the files written, in order
    error,       \* the exception that ended the run, None while there is none
    \* ---- one call of the field selector -----------------------------------
    selCfg,      \* the cfg argument, as the call leaves it
    selCfg0,     \* the cfg argument, as it was when the call was made
    selCount,    \* the count argument
    selOut,      \* the outcome of the call
    selPc,
    \* ---- one call of build_title_pool --------------------------------------
    tdDist,      \* the title_distribution argument (dict items, in order)
    tdCount,     \* the card_count argument
    tdOut,       \* the outcome of the call
    tdPc,
    \* ---- one card: generate_card, then format_card_as_text ----------------
    rCfg,        \* the cfg argument of generate_card
    rIndex,      \* the index argument
    rTitle,      \* the title argument
    rCard,       \* the card returned by generate_card
    rText,       \* the string returned by format_card_as_text
    rPc

vars == << pc, fileState, cfg, card_count, title_pool, cards, drawLog, output, error,
           selCfg, selCfg0, selCount, selOut, selPc,
           tdDist, tdCount, tdOut, tdPc,
           rCfg, rIndex, rTitle, rCard, rText, rPc >>

mainVars == << pc, fileState, cfg, card_count, title_pool, cards, drawLog, output,
              error >>
selVars  == << selCfg, selCfg0, selCount, selOut, selPc >>
tdVars   == << tdDist, tdCount, tdOut, tdPc >>
rVars    == << rCfg, rIndex, rTitle, rCard, rText, rPc >>

None == [type |-> "None"]

---------------------------------------------------------------------------
(* Bounds of the model *)

\* longest pool handed to the field selector on its own
MaxPool == 3
\* largest count handed to the field selector on its own
MaxSelCount == 3
\* largest weight of a title, and largest card_count, for build_title_pool on its own
MaxWeight == 3
MaxTitleCount == 3
\* largest card count a run of main is asked for
MaxCards == 2

---------------------------------------------------------------------------
(* Python values and text *)

PyStr(s)  == [type |-> "str",  val |-> s]
PyList(l) == [type |-> "list", val |-> l]
PyInt(n)  == [type |-> "int",  val |-> n]

\* Python truthiness of a value: `if v`, `not v`
Truthy(v) ==
    CASE v.type = "None" -> FALSE
      [] v.type = "int"  -> v.val # 0
      [] OTHER           -> Len(v.val) > 0

\* what iterating over a value yields: the items of a list, the one-character
\* strings of a str
Iterate(v) ==
    IF v.type = "str" THEN [i \in 1..Len(v.val) |-> << v.val[i] >>] ELSE v.val

RECURSIVE Concat(_)
\* the concatenation of a sequence of character sequences
Concat(ss) == IF ss = << >> THEN << >> ELSE Head(ss) \o Concat(Tail(ss))

RECURSIVE Join(_, _)
\* separator.join(parts), parts a sequence of character sequences
Join(sep, parts) ==
    IF parts = << >> THEN << >>
    ELSE IF Len(parts) = 1 THEN parts[1]
    ELSE parts[1] \o sep \o Join(sep, Tail(parts))

\* "*" * n
Repeat(c, n) == [i \in 1..n |-> c]

DigitChar(d) == CASE d = 0 -> "0" [] d = 1 -> "1" [] d = 2 -> "2" [] d = 3 -> "3"
                  [] d = 4 -> "4" [] d = 5 -> "5" [] d = 6 -> "6" [] d = 7 -> "7"
                  [] d = 8 -> "8" [] d = 9 -> "9"

RECURSIVE NatStr(_)
NatStr(n) == IF n < 10 THEN << DigitChar(n) >> ELSE NatStr(n \div 10) \o << DigitChar(n % 10) >>

\* str(n) / f"{n}" of an int
IntStr(n) == IF n < 0 THEN << "-" >> \o NatStr(-n) ELSE NatStr(n)

\* all sequences of length n over the set S
SeqsOfLen(S, n) == [1..n -> S]
\* all sequences of length at most n over the set S
SeqsUpTo(S, n) == UNION { SeqsOfLen(S, k) : k \in 0..n }

\* the values at the positions idx of a list
Items(source_list, idx) == [j \in 1..Len(idx) |-> source_list[idx[j]]]

\* an index sequence that uses no position twice
Injective(idx) == \A a, b \in 1..Len(idx) : a # b => idx[a] # idx[b]

---------------------------------------------------------------------------
(* Field selector: pick_multiple and _get_random_field_value *)

\* random.choice(seq): any one position of seq
random_choice(seq) == 1..Len(seq)

\* random.sample(population, k): k positions, none used twice, in any order
random_sample(population, k) ==
    { idx \in SeqsOfLen(1..Len(population), k) : Injective(idx) }

\* pick_multiple with the guard of the copy loop widened to <= (a faulty variant)
pick_multiple_le(source_list, count) ==
    IF Len(source_list) = 0 THEN { << >> }
    ELSE IF Len(source_list) <= count
         THEN SeqsOfLen(random_choice(source_list), count)
         ELSE random_sample(source_list, count)

\* pick_multiple drawing with replacement whatever the pool size (a faulty variant)
pick_multiple_repl(source_list, count) ==
    IF Len(source_list) = 0 THEN { << >> }
    ELSE SeqsOfLen(random_choice(source_list), count)

\* pick_multiple(source_list, count): the positions of source_list the call can
\* draw, in the order drawn; the list returned is Items(source_list, idx)
pick_multiple(source_list, count) ==
    IF Len(source_list) = 0 THEN { << >> }
    ELSE IF Len(source_list) < count
         THEN SeqsOfLen(random_choice(source_list), count)
         ELSE random_sample(source_list, count)

\* cfg.get(key): the value under key, None when the key is missing
Get(c, key) == IF key \in DOMAIN c THEN c[key] ELSE None

\* cfg.get(key, default)
GetDefault(c, key, default) == IF key \in DOMAIN c THEN c[key] ELSE default

\* _get_random_field_value(cfg, field_key, count): the outcomes of the call, each
\* [idx |-> the positions of the pool drawn, value |-> the value returned,
\*  cfg |-> the configuration as the call leaves it]; the call only reads cfg
get_random_field_value(c, field_key, count) ==
    LET source_list == Get(c, field_key) IN
    IF ~Truthy(source_list)
    THEN { [idx |-> << >>, value |-> IF count = 1 THEN PyStr(<< >>) ELSE PyList(<< >>),
            cfg |-> c] }
    ELSE IF count = 1
         THEN { [idx |-> << i >>, value |-> PyStr(source_list.val[i]), cfg |-> c] :
                    i \in random_choice(source_list.val) }
         ELSE { [idx |-> idx, value |-> PyList(Items(source_list.val, idx)), cfg |-> c] :
                    idx \in pick_multiple(source_list.val, count) }

---------------------------------------------------------------------------
(* The other parts of the model at rest *)

NoCfg == [k \in {} |-> None]

MainIdle ==
    /\ pc = "idle" /\ fileState = [status |-> "absent"] /\ cfg = NoCfg /\ card_count = 0
    /\ title_pool = << >> /\ cards = << >> /\ drawLog = << >> /\ output = << >>
    /\ error = None
SelIdle == selCfg = NoCfg /\ selCfg0 = NoCfg /\ selCount = 0 /\ selOut = None /\ selPc = "idle"
TdIdle  == tdDist = << >> /\ tdCount = 0 /\ tdOut = None /\ tdPc = "idle"
RIdle   == /\ rCfg = NoCfg /\ rIndex = 0 /\ rTitle = << >> /\ rCard = None
           /\ rText = << >> /\ rPc = "idle"

---------------------------------------------------------------------------
(* One call of the field selector, on every small pool and count *)

\* the strings a pool handed to the selector may hold
SelElems == { << "a" >>, << "b" >>, << "c", "d" >> }

\* the pool of the call under study, None when the key is missing
SelPool == Get(selCfg, "pool")

SelInit ==
    /\ selCfg \in { NoCfg } \cup
                  { [k \in {"pool"} |-> PyList(p)] : p \in SeqsUpTo(SelElems, MaxPool) }
    /\ selCfg0 = selCfg
    /\ selCount \in 0..MaxSelCount
    /\ selOut = None
    /\ selPc = "call"
    /\ MainIdle /\ TdIdle /\ RIdle

\* the call _get_random_field_value(selCfg, "pool", selCount)
Select ==
    /\ selPc = "call"
    /\ \E o \in get_random_field_value(selCfg, "pool", selCount) :
          /\ selOut' = [idx |-> o.idx, value |-> o.value]
          /\ selCfg' = o.cfg
    /\ selPc' = "return"
    /\ UNCHANGED << selCfg0, selCount, mainVars, tdVars, rVars >>

SelNext == Select
SpecSelect == SelInit /\ [][SelNext]_vars

---------------------------------------------------------------------------
(* Title pool builder: build_title_pool *)

RECURSIVE Sum(_)
\* sum(counts)
Sum(ns) == IF ns = << >> THEN 0 ELSE Head(ns) + Sum(Tail(ns))

RECURSIVE Arrangements(_)
\* every order in which the members of the set S can be arranged
Arrangements(S) ==
    IF S = {} THEN { << >> }
    ELSE UNION { { << x >> \o p : p \in Arrangements(S \ {x}) } : x \in S }

\* random.shuffle(pool): the list in any order
random_shuffle(pool) == { Items(pool, idx) : idx \in Arrangements(1..Len(pool)) }

\* chain.from_iterable([title] * count for ...): each title repeated count times
ChainRepeat(items) == Concat([i \in 1..Len(items) |-> Repeat(items[i].title, items[i].weight)])

\* itertools.accumulate(weights)
Accumulate(ws) == [i \in 1..Len(ws) |-> Sum(SubSeq(ws, 1, i))]

\* bisect(cum_weights, x, 0, n - 1): the first position whose cumulative weight
\* exceeds x, the last position when there is none
Bisect(cum, x) ==
    IF \E i \in 1..(Len(cum) - 1) : cum[i] > x
    THEN CHOOSE i \in 1..(Len(cum) - 1) : cum[i] > x /\ \A j \in 1..(i - 1) : cum[j] <= x
    ELSE Len(cum)

\* random.choices(population, weights, k): raises ValueError when the weights sum
\* to zero or less; otherwise k independent draws, each the bisection of a point
\* of [0, total) in the cumulative weights
random_choices(population, weights, k) ==
    LET cum   == Accumulate(weights)
        total == IF cum = << >> THEN 0 ELSE cum[Len(cum)]
    IN  IF Len(population) = 0
        THEN { [ok |-> FALSE, error |-> "IndexError"] }
        ELSE IF total <= 0
        THEN { [ok |-> FALSE, error |-> "ValueError"] }
        ELSE { [ok |-> TRUE,
                value |-> [j \in 1..k |-> population[Bisect(cum, xs[j])]]] :
                   xs \in SeqsOfLen(0..(total - 1), k) }

\* build_title_pool that always takes the shuffle branch (a faulty variant)
build_title_pool_shuffle(title_distribution, count) ==
    { [ok |-> TRUE, value |-> SubSeq(p, 1, IF count < Len(p) THEN count ELSE Len(p))] :
          p \in random_shuffle(ChainRepeat(title_distribution)) }

\* build_title_pool that draws the titles uniformly, ignoring the weights
\* (a faulty variant)
build_title_pool_uniform(title_distribution, count) ==
    { [ok |-> TRUE, value |-> [j \in 1..count |-> title_distribution[idx[j]].title]] :
          idx \in SeqsOfLen(1..Len(title_distribution), count) }

\* build_title_pool(title_distribution, card_count): the outcomes of the call,
\* [ok |-> TRUE, value |-> the list returned] or [ok |-> FALSE, error |-> raised].
\* title_distribution is the dict's items in order, each [title, weight].
build_title_pool(title_distribution, count) ==
    LET items  == title_distribution
        counts == [i \in 1..Len(items) |-> items[i].weight]
        total  == Sum(counts)
    IN  IF total >= count
        THEN { [ok |-> TRUE, value |-> SubSeq(p, 1, count)] :
                   p \in random_shuffle(ChainRepeat(items)) }
        ELSE random_choices([i \in 1..Len(items) |-> items[i].title], counts, count)

---------------------------------------------------------------------------
(* One call of build_title_pool, on every small distribution and count *)

\* the titles of the distributions under study, in dict order
TdTitles == << << "F", "o", "u" >>, << "R", "o", "i" >> >>

TdInit ==
    /\ \E ws \in SeqsOfLen(0..MaxWeight, Len(TdTitles)) :
          tdDist = [i \in 1..Len(TdTitles) |-> [title |-> TdTitles[i], weight |-> ws[i]]]
    /\ tdCount \in 1..MaxTitleCount
    /\ tdOut = None
    /\ tdPc = "call"
    /\ MainIdle /\ SelIdle /\ RIdle

\* the call build_title_pool(tdDist, tdCount)
BuildTitles ==
    /\ tdPc = "call"
    /\ \E o \in build_title_pool(tdDist, tdCount) : tdOut' = o
    /\ tdPc' = "return"
    /\ UNCHANGED << tdDist, tdCount, mainVars, selVars, rVars >>

TdNext == BuildTitles
SpecTitle == TdInit /\ [][TdNext]_vars

---------------------------------------------------------------------------
(* Properties of the field selector and of the title pool builder *)

\* how often x occurs in seq
Occurrences(seq, x) == Cardinality({ j \in 1..Len(seq) : seq[j] = x })

\* the elements a selector result holds: the string itself for a str, the items
\* for a list
Elements(v) == IF v.type = "str" THEN << v.val >> ELSE v.val

\* the set of members of a list
Members(l) == { l[j] : j \in 1..Len(l) }

\* the results the call under study can produce
SelOutcomes == get_random_field_value(selCfg, "pool", selCount)

\* the weights of the distribution under study sum to this
TdTotal == Sum([i \in 1..Len(tdDist) |-> tdDist[i].weight])

\* C4: for a distribution of non-negative weights with at least one positive and
\* a positive card_count, build_title_pool returns exactly card_count titles, each
\* a key of positive weight; when total >= card_count no title occurs more often
\* than its weight, and exactly as often when total = card_count.
C4_TitlePool ==
    (tdPc = "return" /\ tdCount > 0 /\ \E i \in 1..Len(tdDist) : tdDist[i].weight > 0)
    => /\ tdOut.ok
       /\ Len(tdOut.value) = tdCount
       /\ \A j \in 1..Len(tdOut.value) :
             \E i \in 1..Len(tdDist) :
                 tdDist[i].title = tdOut.value[j] /\ tdDist[i].weight > 0
       /\ TdTotal >= tdCount =>
             \A i \in 1..Len(tdDist) :
                 Occurrences(tdOut.value, tdDist[i].title) <= tdDist[i].weight
       /\ TdTotal = tdCount =>
             \A i \in 1..Len(tdDist) :
                 Occurrences(tdOut.value, tdDist[i].title) = tdDist[i].weight

\* a call whose weights cover the count with room to spare has returned two
\* different titles
C4_Witness ==
    /\ tdPc = "return" /\ tdOut.ok
    /\ TdTotal > tdCount /\ tdCount >= 2
    /\ \E i \in 1..Len(tdDist) : tdDist[i].weight = 1
    /\ tdOut.value[1] # tdOut.value[2]

\* C5: for a non-empty pool P and a count c < len(P), the selector returns exactly
\* c elements, all members of P, no position of P used twice, and P is as it was.
C5_DistinctDraw ==
    (selPc = "return" /\ Truthy(Get(selCfg0, "pool")) /\ selCount < Len(selCfg0["pool"].val))
    => /\ Len(Elements(selOut.value)) = selCount
       /\ Len(selOut.idx) = selCount
       /\ Injective(selOut.idx)
       /\ \A j \in 1..selCount : selOut.idx[j] \in 1..Len(selCfg0["pool"].val)
       /\ Elements(selOut.value) = Items(selCfg0["pool"].val, selOut.idx)
       /\ selCfg = selCfg0

\* a draw of two out of three has returned
C5_Witness ==
    /\ selPc = "return" /\ Truthy(SelPool)
    /\ Len(SelPool.val) = 3 /\ selCount = 2
    /\ Len(selOut.value.val) = 2

\* C6 as stated: for a non-empty pool P and a count c > 1 with c >= len(P), the
\* selector returns c elements drawn with replacement: every length-c sequence
\* over P is a possible result.
C6_Original ==
    (selPc = "return" /\ Truthy(SelPool) /\ selCount > 1 /\ selCount >= Len(SelPool.val))
    => /\ Len(selOut.value.val) = selCount
       /\ { o.value.val : o \in SelOutcomes } = SeqsOfLen(Members(SelPool.val), selCount)

\* C6 amended: for a non-empty pool P and a count c > 1, when c > len(P) the
\* selector returns c elements drawn with replacement (every length-c sequence of
\* positions of P is a possible result); when c = len(P) it returns the elements
\* of P in some order, each position used exactly once.
C6_Replacement ==
    (selPc = "return" /\ Truthy(SelPool) /\ selCount > 1 /\ selCount >= Len(SelPool.val))
    => /\ Len(selOut.value.val) = selCount
       /\ selOut.value.val = Items(SelPool.val, selOut.idx)
       /\ selCount > Len(SelPool.val) =>
             { o.idx : o \in SelOutcomes } = SeqsOfLen(1..Len(SelPool.val), selCount)
       /\ selCount = Len(SelPool.val) =>
             /\ Injective(selOut.idx)
             /\ { o.idx : o \in SelOutcomes } = Arrangements(1..Len(SelPool.val))

\* a draw of as many elements as the pool holds, out of a pool of different
\* strings, has returned
C6_Witness ==
    /\ selPc = "return" /\ Truthy(SelPool)
    /\ selCount = Len(SelPool.val) /\ selCount = 3
    /\ Cardinality(Members(SelPool.val)) = 3
    /\ Cardinality(Members(selOut.value.val)) = 3

---------------------------------------------------------------------------
(* Card assembler: generate_card *)

Min(a, b) == IF a < b THEN a ELSE b

\* the largest number of borders drawn for a card
MaxBorders == 12

\* min(12, len(cfg.get("borders", [])) or 0)
BordersCount(c) == Min(MaxBorders, Len(GetDefault(c, "borders", PyList(<< >>)).val))

\* the slots of a card with two of the draws in the other order (a faulty variant)
FieldSchema_swapped(c) ==
    <<
       [slot |-> "symbol", key |-> "symbols", count |-> 1],
       [slot |-> "lieu", key |-> "lieux", count |-> 1],
       [slot |-> "verbs", key |-> "table_verbes", count |-> 3],
       [slot |-> "personnage", key |-> "personnages", count |-> 1],
       [slot |-> "objet", key |-> "objets", count |-> 1],
       [slot |-> "emotions", key |-> "emotions", count |-> 2],
       [slot |-> "appearance", key |-> "appearances", count |-> 1],
       [slot |-> "motivation", key |-> "motivations", count |-> 1],
       [slot |-> "traits", key |-> "traits", count |-> 3],
       [slot |-> "secret", key |-> "sombres_secrets", count |-> 1],
       [slot |-> "reaction", key |-> "reactions_amical_hostile", count |-> 1],
       [slot |-> "relation", key |-> "relations_pj_pnj", count |-> 1],
       [slot |-> "borders", key |-> "borders", count |-> BordersCount(c)]
    >>

\* the slots of a card in the order the dict literal of generate_card evaluates
\* them: the slot, the pool key it draws from, the count asked for
FieldSchema(c) ==
    <<
       [slot |-> "symbol", key |-> "symbols", count |-> 1],
       [slot |-> "verbs", key |-> "table_verbes", count |-> 3],
       [slot |-> "lieu", key |-> "lieux", count |-> 1],
       [slot |-> "personnage", key |-> "personnages", count |-> 1],
       [slot |-> "objet", key |-> "objets", count |-> 1],
       [slot |-> "emotions", key |-> "emotions", count |-> 2],
       [slot |-> "appearance", key |-> "appearances", count |-> 1],
       [slot |-> "motivation", key |-> "motivations", count |-> 1],
       [slot |-> "traits", key |-> "traits", count |-> 3],
       [slot |-> "secret", key |-> "sombres_secrets", count |-> 1],
       [slot |-> "reaction", key |-> "reactions_amical_hostile", count |-> 1],
       [slot |-> "relation", key |-> "relations_pj_pnj", count |-> 1],
       [slot |-> "borders", key |-> "borders", count |-> BordersCount(c)]
    >>

RECURSIVE Product(_)
\* every way of taking one member of each set of a sequence of sets
Product(sets) ==
    IF sets = << >> THEN { << >> }
    ELSE { << x >> \o rest : x \in Head(sets), rest \in Product(Tail(sets)) }

\* {k: v for k, v in card.items() if v}
DropEmpty(card) == [k \in { k \in DOMAIN card : Truthy(card[k]) } |-> card[k]]

\* generate_card(index, title, cfg): the outcomes of the call, each
\* [card |-> the dict returned, draws |-> the selector calls made, in order, with
\* the positions each drew]
generate_card(index, title, c) ==
    LET schema == FieldSchema(c)
        slotAt(name) == CHOOSE i \in 1..Len(schema) : schema[i].slot = name
        slots  == { schema[i].slot : i \in 1..Len(schema) }
    IN  { [card  |-> DropEmpty([k \in {"number", "title"} \cup slots |->
                        IF k = "number" THEN PyInt(index)
                        ELSE IF k = "title" THEN PyStr(title)
                        ELSE picks[slotAt(k)].value]),
           draws |-> [i \in 1..Len(schema) |-> [key |-> schema[i].key, idx |-> picks[i].idx]]] :
             picks \in Product([i \in 1..Len(schema) |->
                          get_random_field_value(c, schema[i].key, schema[i].count)]) }

---------------------------------------------------------------------------
(* Box renderer: format_card_as_text *)

\* the (key, label, separator) triples of format_card_as_text, in order
DisplayFields ==
    <<
       [key |-> "symbol", label |-> << "S", "y", "m", "b", "o", "l", "e" >>, separator |-> <<  >>],
       [key |-> "verbs", label |-> << "V", "e", "r", "b", "e", "s" >>, separator |-> << ",", " " >>],
       [key |-> "lieu", label |-> << "L", "i", "e", "u" >>, separator |-> <<  >>],
       [key |-> "personnage", label |-> << "P", "e", "r", "s", "o", "n", "n", "a", "g", "e" >>, separator |-> <<  >>],
       [key |-> "objet", label |-> << "O", "b", "j", "e", "t" >>, separator |-> <<  >>],
       [key |-> "emotions", label |-> << "U+00C9", "m", "o", "t", "i", "o", "n", "s" >>, separator |-> << ",", " " >>],
       [key |-> "appearance", label |-> << "A", "p", "p", "a", "r", "e", "n", "c", "e" >>, separator |-> <<  >>],
       [key |-> "motivation", label |-> << "M", "o", "t", "i", "v", "a", "t", "i", "o", "n" >>, separator |-> <<  >>],
       [key |-> "traits", label |-> << "T", "r", "a", "i", "t", "s" >>, separator |-> << ",", " " >>],
       [key |-> "secret", label |-> << "S", "e", "c", "r", "e", "t" >>, separator |-> <<  >>],
       [key |-> "relation", label |-> << "R", "e", "l", "a", "t", "i", "o", "n" >>, separator |-> <<  >>]
    >>

\* f"{value}" of what card.get(key) gives
Format(v) ==
    CASE v.type = "None" -> << "N", "o", "n", "e" >>
      [] v.type = "int"  -> IntStr(v.val)
      [] OTHER           -> v.val

\* the first line of a card: f"Carte {card.get('number')} — {card.get('title', '')}"
HeaderLine(card) ==
    << "C", "a", "r", "t", "e", " " >> \o Format(Get(card, "number"))
        \o << " ", "U+2014", " " >> \o Format(GetDefault(card, "title", PyStr(<< >>)))

\* the lines of format_card_as_text after the title line: a line per populated
\* field, then the reaction and the borders
FieldLines(card) ==
    Concat([i \in 1..Len(DisplayFields) |->
        LET f == DisplayFields[i]  value == Get(card, f.key) IN
        IF Truthy(value)
        THEN IF value.type = "list"
             THEN << f.label \o << " ", ":", " " >> \o Join(f.separator, value.val) >>
             ELSE << f.label \o << " ", ":", " " >> \o Format(value) >>
        ELSE << >>])
    \o (IF Truthy(Get(card, "reaction"))
        THEN << << "R", "U+00E9", "a", "c", "t", "i", "o", "n", " ", "(", "a", "m", "i", "c", "a", "l", "/", "h", "o", "s", "t", "i", "l", "e", ")", " ", ":", " " >>
                   \o Format(card["reaction"]) >>
        ELSE << >>)
    \o (IF Truthy(Get(card, "borders"))
        THEN << << "T", "h", "U+00E8", "m", "e", "s", " ", ":", " " >>
                   \o Join(<< ",", " " >>, Iterate(card["borders"])) >>
        ELSE << >>)

\* the display lines without the title line (a faulty variant)
ContentLines_untitled(card) == FieldLines(card)

\* content_lines of format_card_as_text: the title line, then the field lines
ContentLines(card) == << HeaderLine(card) >> \o FieldLines(card)

\* max(len(line) for line in content_lines)
MaxLen(lines) == CHOOSE m \in { Len(lines[i]) : i \in 1..Len(lines) } :
                     \A i \in 1..Len(lines) : Len(lines[i]) <= m

\* format_card_as_text(card): the string returned
format_card_as_text(card) ==
    LET content_lines == ContentLines(card) IN
    IF content_lines = << >> THEN << >>
    ELSE LET max_len   == MaxLen(content_lines)
             box_width == max_len + 4
             top_bottom_line == Repeat("*", box_width)
             boxed_lines ==
                 << top_bottom_line >>
                 \o [i \in 1..Len(content_lines) |->
                        << "*" >> \o content_lines[i]
                            \o Repeat(" ", max_len - Len(content_lines[i]))
                            \o << " ", "*" >>]
                 \o << top_bottom_line >>
         IN  Join(<< "\n" >>, boxed_lines) \o << "\n" >>

---------------------------------------------------------------------------
(* One card: generate_card, then format_card_as_text, on small configurations *)

\* the pool keys the card schema draws from
PoolKeys == { FieldSchema(NoCfg)[i].key : i \in 1..Len(FieldSchema(NoCfg)) }

\* the pool of each key but borders in the configurations under study
CardPool(key) ==
    CASE key = "symbols" -> << << "L", "u", "n", "e" >> >>
      [] key = "table_verbes" -> << << "f", "u", "i", "r" >>, << "o", "s", "e", "r" >> >>
      [] key = "lieux" -> << << "T", "o", "u", "r" >> >>
      [] key = "personnages" -> << << "M", "a", "g", "e" >> >>
      [] key = "objets" -> << << "C", "l", "e", "f" >> >>
      [] key = "emotions" -> << << "j", "o", "i", "e" >>, << "p", "e", "u", "r" >>, << "i", "r", "e" >> >>
      [] key = "appearances" -> << << "p", "U+00E2", "l", "e" >> >>
      [] key = "motivations" -> << << "o", "r" >> >>
      [] key = "traits" -> << << "v", "i", "f" >> >>
      [] key = "sombres_secrets" -> << << "d", "e", "t", "t", "e" >> >>
      [] key = "reactions_amical_hostile" -> << << "a", "m", "i", "c", "a", "l" >> >>
      [] key = "relations_pj_pnj" -> << << "a", "m", "i" >> >>

\* the borders pools under study: one string, two strings
BordersPools == { << << "f", "e", "u" >> >>, << << "n", "u", "i", "t" >>, << "x" >> >> }

\* the titles under study
CardTitles == { << "L", "e", " ", "F", "o", "u" >>, << "R", "o", "i" >> }

\* at most this many pool keys are present, or at most this many are missing
MaxOdd == 2

\* the configurations under study: every choice of present keys that leaves at
\* most MaxOdd keys present or at most MaxOdd keys missing, with either borders pool
CardConfigs ==
    { [k \in present |-> IF k = "borders" THEN PyList(b) ELSE PyList(CardPool(k))] :
          present \in { ks \in SUBSET PoolKeys :
                           \/ Cardinality(ks) <= MaxOdd
                           \/ Cardinality(PoolKeys \ ks) <= MaxOdd },
          b \in BordersPools }

RInit ==
    /\ rCfg \in CardConfigs
    /\ rIndex \in {1, 10}
    /\ rTitle \in CardTitles
    /\ rCard = None
    /\ rText = << >>
    /\ rPc = "generate"
    /\ MainIdle /\ SelIdle /\ TdIdle

\* card = generate_card(rIndex, rTitle, rCfg)
GenerateOne ==
    /\ rPc = "generate"
    /\ \E o \in generate_card(rIndex, rTitle, rCfg) : rCard' = o
    /\ rPc' = "format"
    /\ UNCHANGED << rCfg, rIndex, rTitle, rText, mainVars, selVars, tdVars >>

\* text = format_card_as_text(card)
FormatOne ==
    /\ rPc = "format"
    /\ rText' = format_card_as_text(rCard.card)
    /\ rPc' = "formatted"
    /\ UNCHANGED << rCfg, rIndex, rTitle, rCard, mainVars, selVars, tdVars >>

RNext == GenerateOne \/ FormatOne
SpecCard == RInit /\ [][RNext]_vars

---------------------------------------------------------------------------
(* Properties of the card assembler and of the box renderer *)

\* the lines of a text, each ended by a line break
Lines(text) ==
    LET breaks == { i \in 1..Len(text) : text[i] = "\n" }
        at(k)  == CHOOSE i \in breaks : Cardinality({ j \in breaks : j <= i }) = k
    IN  [k \in 1..Cardinality(breaks) |->
            SubSeq(text, IF k = 1 THEN 1 ELSE at(k - 1) + 1, at(k) - 1)]

\* the card under study has no populated slot besides its number and title
BareCard == DOMAIN rCard.card \subseteq {"number", "title"}

\* the title line the card under study must show
ExpectedHeader == << "C", "a", "r", "t", "e", " " >> \o IntStr(rIndex) \o << " ", "U+2014", " " >> \o rTitle

\* the elements of the borders pool drawn for the card under study
BordersDrawn ==
    LET d == CHOOSE i \in 1..Len(rCard.draws) : rCard.draws[i].key = "borders"
    IN  Items(rCfg["borders"].val, rCard.draws[d].idx)

\* C7 as stated: format_card_as_text returns the empty string for a card with no
\* populated slot other than its number and title.
C7_Original == (rPc = "formatted" /\ BareCard) => rText = << >>

\* C7 amended: for a card with no populated slot other than its number and title,
\* format_card_as_text returns a framed block, never the empty string: a border
\* of len(title line) + 4 asterisks, the title line "Carte {number} - {title}"
\* between "*" and " *", and the same border again.
C7_BareCardFramed ==
    (rPc = "formatted" /\ BareCard)
    => /\ rText # << >>
       /\ Lines(rText) = << Repeat("*", Len(ExpectedHeader) + 4),
                            << "*" >> \o ExpectedHeader \o << " ", "*" >>,
                            Repeat("*", Len(ExpectedHeader) + 4) >>

\* a card generated from a configuration without any pool has been formatted
C7_Witness ==
    /\ rPc = "formatted" /\ DOMAIN rCfg = {} /\ BareCard
    /\ Len(rText) > 0

\* C9: every non-empty block is a rectangle: the borders and every wrapped content
\* line have the same length, max_len + 4.
C9_Rectangle ==
    (rPc = "formatted" /\ rText # << >>)
    => \A i \in 1..Len(Lines(rText)) :
           Len(Lines(rText)[i]) = MaxLen(ContentLines(rCard.card)) + 4

\* C10: with a non-empty borders pool, the borders slot of the card holds
\* min(12, len(borders)) elements of the pool, and the block's last content line
\* is "Themes : " followed by those elements joined with ", ".
C10_Borders ==
    (rPc = "formatted" /\ "borders" \in DOMAIN rCfg /\ Len(rCfg["borders"].val) >= 1)
    => /\ "borders" \in DOMAIN rCard.card
       /\ Len(BordersDrawn) = Min(MaxBorders, Len(rCfg["borders"].val))
       /\ Iterate(rCard.card["borders"]) = BordersDrawn
       /\ LET lines    == Lines(rText)
              last     == lines[Len(lines) - 1]
              expected == << "*" >> \o << "T", "h", "U+00E8", "m", "e", "s", " ", ":", " " >>
                              \o Join(<< ",", " " >>, BordersDrawn)
          IN  /\ Len(last) >= Len(expected) + 2
              /\ SubSeq(last, 1, Len(expected)) = expected
              /\ SubSeq(last, Len(last) - 1, Len(last)) = << " ", "*" >>
              /\ \A i \in (Len(expected) + 1)..(Len(last) - 2) : last[i] = " "

---------------------------------------------------------------------------
(* Validation, the card-count prompt and the text file *)

PyDict(items) == [type |-> "dict", val |-> items]

\* required_keys of check_critical_lists
RequiredKeys ==
    << "title_distribution", "symbols", "table_verbes", "lieux",
       "personnages", "objets", "motivations", "traits",
       "sombres_secrets", "reactions_amical_hostile", "relations_pj_pnj" >>

\* check_critical_lists(cfg): the keys found missing and the keys found empty, in
\* the order of required_keys; the call raises ValueError unless both are empty
check_critical_lists(c) ==
    LET keep(test(_)) ==
            Concat([i \in 1..Len(RequiredKeys) |->
                       IF test(RequiredKeys[i]) THEN << RequiredKeys[i] >> ELSE << >>])
        missing(key) == key \notin DOMAIN c
        empty(key)   == key \in DOMAIN c /\ ~Truthy(c[key])
    IN  [missing_keys |-> keep(missing), empty_keys |-> keep(empty)]

\* str.strip() on spaces
RECURSIVE Strip(_)
Strip(s) ==
    IF s = << >> THEN s
    ELSE IF Head(s) = " " THEN Strip(Tail(s))
    ELSE IF s[Len(s)] = " " THEN Strip(SubSeq(s, 1, Len(s) - 1))
    ELSE s

Digits == { "0", "1", "2", "3", "4", "5", "6", "7", "8", "9" }
DigitValue(ch) == CHOOSE d \in 0..9 : DigitChar(d) = ch

RECURSIVE NatValue(_)
NatValue(s) == IF s = << >> THEN 0 ELSE 10 * NatValue(SubSeq(s, 1, Len(s) - 1)) + DigitValue(s[Len(s)])

\* int(text): an optional sign and at least one digit, ValueError otherwise
ParseInt(text) ==
    LET u      == Strip(text)
        signed == u # << >> /\ u[1] \in { "+", "-" }
        body   == IF signed THEN Tail(u) ELSE u
    IN  IF body = << >> \/ \E i \in 1..Len(body) : body[i] \notin Digits
        THEN [ok |-> FALSE, error |-> "ValueError"]
        ELSE [ok |-> TRUE,
              value |-> IF signed /\ u[1] = "-" THEN -NatValue(body) ELSE NatValue(body)]

\* card_count when the configuration gives none
DefaultCardCount == 100

\* one pass of the loop of _prompt_for_card_count on the line typed:
\* [done |-> TRUE, value |-> returned] or [done |-> FALSE] to prompt again
prompt_for_card_count(default_count, line) ==
    LET user_input == Strip(line) IN
    IF user_input = << >> THEN [done |-> TRUE, value |-> default_count]
    ELSE LET count == ParseInt(user_input) IN
         IF ~count.ok THEN [done |-> FALSE, warning |-> "invalid"]
         ELSE IF count.value <= 0 THEN [done |-> FALSE, warning |-> "not positive"]
         ELSE [done |-> TRUE, value |-> count.value]

DeckTitle ==
    << "L", "E", " ", "T", "A", "R", "O", "T", " ", "D", "E", "S", " ", "R", "O", "Y", "A", "U", "M", "E", "S", " ", "O", "U", "B", "L", "I", "U+00C9", "S", " ", "U+2014", " ", "D", "E", "C", "K", " ", "G", "U+00C9", "N", "U+00C9", "R", "U+00C9" >>

\* the text save_as_txt writes
save_as_txt(deck) ==
    Join(<< "\n" >>,
         << DeckTitle \o << "\n" >>, Repeat("=", Len(DeckTitle)) \o << "\n" >> >>
         \o [i \in 1..Len(deck) |-> format_card_as_text(deck[i])])

---------------------------------------------------------------------------
(* A run of main() *)

\* at most this many keys of a configuration are missing or empty
MaxDeviant == 1

\* the pool of each key in the configurations main() is run on: one string per
\* pool, two borders
MainPool(key) ==
    IF key = "borders" THEN << << "n", "u", "i", "t" >>, << "x" >> >>
    ELSE << CardPool(key)[1] >>

\* the weights of the title distributions main() is run on: all zero, one title
\* only, one card each, and more weight than cards
MainWeights == { << 0, 0 >>, << 1, 0 >>, << 1, 1 >>, << 2, 1 >> }

MainDists ==
    { [i \in 1..Len(TdTitles) |-> [title |-> TdTitles[i], weight |-> ws[i]]] :
          ws \in MainWeights }

\* a complete configuration
FullConfig(dist, n) ==
    [k \in PoolKeys \cup {"title_distribution", "card_count"} |->
        IF k = "title_distribution" THEN PyDict(dist)
        ELSE IF k = "card_count" THEN PyInt(n)
        ELSE PyList(MainPool(k))]

\* a configuration with the keys of `deviant` emptied and, among them, the keys
\* of `gone` removed
Deviate(c, deviant, gone) ==
    [k \in DOMAIN c \ gone |->
        IF k \in deviant
        THEN (IF k = "title_distribution" THEN PyDict(<< >>) ELSE PyList(<< >>))
        ELSE c[k]]

\* the configurations main() is run on: a complete one in which at most
\* MaxDeviant keys are missing or empty
MainConfigs ==
    UNION { { Deviate(FullConfig(d, n), deviant, gone) :
                  d \in MainDists, n \in 0..MaxCards, gone \in SUBSET deviant } :
            deviant \in { ks \in SUBSET (PoolKeys \cup {"title_distribution"}) :
                             Cardinality(ks) <= MaxDeviant } }

\* the lines the operator may type at the prompt
PromptInputs ==
    { << >>, << " " >>, << "a" >>, << "-" >>, << "1", "a" >> }
    \cup { IntStr(n) : n \in (-1)..MaxCards }
    \cup { << " " >> \o IntStr(n) \o << " " >> : n \in 1..MaxCards }
    \cup { << "+" >> \o IntStr(n) : n \in 1..MaxCards }

Init ==
    /\ pc = "load"
    /\ fileState \in { [status |-> "absent"], [status |-> "malformed"] }
                     \cup { [status |-> "ok", content |-> c] : c \in MainConfigs }
    /\ cfg = NoCfg
    /\ card_count = 0
    /\ title_pool = << >>
    /\ cards = << >>
    /\ drawLog = << >>
    /\ output = << >>
    /\ error = None
    /\ SelIdle /\ TdIdle /\ RIdle

\* the except clause of main(): print the error, sys.exit(1)
Fatal(e) == pc' = "fatal" /\ error' = [type |-> e, exit |-> 1]

\* cfg = load_config(config_path)
LoadConfig ==
    /\ pc = "load"
    /\ \/ /\ fileState.status = "absent"
          /\ Fatal("FileNotFoundError")
          /\ cfg' = cfg
       \/ /\ fileState.status = "malformed"
          /\ Fatal("ValueError")
          /\ cfg' = cfg
       \/ /\ fileState.status = "ok"
          /\ cfg' = fileState.content
          /\ pc' = "check"
          /\ error' = error
    /\ UNCHANGED << fileState, card_count, title_pool, cards, drawLog, output,
                    selVars, tdVars, rVars >>

\* check_critical_lists(cfg)
CheckCriticalLists ==
    /\ pc = "check"
    /\ LET found == check_critical_lists(cfg) IN
       \/ /\ found.missing_keys # << >> \/ found.empty_keys # << >>
          /\ pc' = "fatal"
          /\ error' = [type |-> "ValueError", exit |-> 1,
                       missing_keys |-> found.missing_keys,
                       empty_keys |-> found.empty_keys]
       \/ /\ found.missing_keys = << >> /\ found.empty_keys = << >>
          /\ pc' = "prompt"
          /\ error' = error
    /\ UNCHANGED << fileState, cfg, card_count, title_pool, cards, drawLog, output,
                    selVars, tdVars, rVars >>

\* default_count = int(cfg.get("card_count", 100)), and one pass of the loop of
\* _prompt_for_card_count(default_count) on a line typed by the operator
PromptForCardCount ==
    /\ pc = "prompt"
    /\ \E line \in PromptInputs :
          LET default_count == GetDefault(cfg, "card_count", PyInt(DefaultCardCount)).val
              answer        == prompt_for_card_count(default_count, line)
          IN  \/ /\ answer.done
                 /\ card_count' = answer.value
                 /\ pc' = "build"
              \/ /\ ~answer.done
                 /\ card_count' = card_count
                 /\ pc' = "prompt"
    /\ UNCHANGED << fileState, cfg, title_pool, cards, drawLog, output, error,
                    selVars, tdVars, rVars >>

\* title_pool = build_title_pool(cfg["title_distribution"], card_count)
BuildTitlePool ==
    /\ pc = "build"
    /\ \E o \in build_title_pool(cfg["title_distribution"].val, card_count) :
          \/ /\ o.ok
             /\ title_pool' = o.value
             /\ pc' = "generate"
             /\ error' = error
          \/ /\ ~o.ok /\ o.error = "ValueError"
             /\ Fatal("ValueError")
             /\ title_pool' = title_pool
          \/ /\ ~o.ok /\ o.error # "ValueError"
             /\ pc' = "crash"
             /\ error' = [type |-> o.error]
             /\ title_pool' = title_pool
    /\ drawLog' = Append(drawLog, [call |-> "build_title_pool"])
    /\ UNCHANGED << fileState, cfg, card_count, cards, output, selVars, tdVars, rVars >>

\* one pass of the loop `for i in range(1, card_count + 1)`:
\* title = title_pool[i - 1]; cards.append(generate_card(i, title, cfg))
GenerateCard ==
    /\ pc = "generate"
    /\ Len(cards) < card_count
    /\ LET i == Len(cards) + 1 IN
       \/ /\ i > Len(title_pool)
          /\ pc' = "crash"
          /\ error' = [type |-> "IndexError"]
          /\ UNCHANGED << cards, drawLog >>
       \/ /\ i <= Len(title_pool)
          /\ \E o \in generate_card(i, title_pool[i], cfg) :
                /\ cards' = Append(cards, o.card)
                /\ drawLog' = drawLog \o
                      [j \in 1..Len(o.draws) |->
                          [call |-> "select", card |-> i, key |-> o.draws[j].key]]
          /\ UNCHANGED << pc, error >>
    /\ UNCHANGED << fileState, cfg, card_count, title_pool, output, selVars, tdVars, rVars >>

\* save_as_txt(cards, txt_file), once the loop is over
SaveAsTxt ==
    /\ pc = "generate"
    /\ Len(cards) >= card_count
    /\ output' = Append(output, [file |-> "deck_oracle.txt", text |-> save_as_txt(cards)])
    /\ pc' = "docx"
    /\ UNCHANGED << fileState, cfg, card_count, title_pool, cards, drawLog, error,
                    selVars, tdVars, rVars >>

\* if create_docx: save_as_docx(cards, docx_file); python-docx may be installed
\* or not, and without it nothing is written
SaveAsDocx ==
    /\ pc = "docx"
    /\ \E HAS_DOCX \in BOOLEAN :
          \/ /\ HAS_DOCX
             /\ output' = Append(output,
                   [file |-> "deck_oracle.docx",
                    headings |-> [i \in 1..Len(cards) |->
                        Format(Get(cards[i], "number")) \o << " ", ":", " ", " " >>
                            \o Format(Get(cards[i], "title"))]])
          \/ /\ ~HAS_DOCX
             /\ output' = output
    /\ pc' = "done"
    /\ UNCHANGED << fileState, cfg, card_count, title_pool, cards, drawLog, error,
                    selVars, tdVars, rVars >>

Next ==
    \/ LoadConfig
    \/ CheckCriticalLists
    \/ PromptForCardCount
    \/ BuildTitlePool
    \/ GenerateCard
    \/ SaveAsTxt
    \/ SaveAsDocx

Spec == Init /\ [][Next]_vars

---------------------------------------------------------------------------
(* Properties of a run of main() *)

\* the keys the card schema reads, and the title distribution
SchemaKeys ==
    { "title_distribution", "symbols", "table_verbes", "lieux", "personnages",
      "objets", "emotions", "appearances", "motivations", "traits",
      "sombres_secrets", "reactions_amical_hostile", "relations_pj_pnj", "borders" }

\* the pool keys in the order the slots of a card are to be drawn: symbol, verbs,
\* lieu, personnage, objet, emotions, appearance, motivation, traits, secret,
\* reaction, relation, borders
SlotOrder ==
    << "symbols", "table_verbes", "lieux", "personnages", "objets", "emotions",
       "appearances", "motivations", "traits", "sombres_secrets",
       "reactions_amical_hostile", "relations_pj_pnj", "borders" >>

\* the prompt has returned
Prompted == pc \in { "build", "generate", "docx", "done" }

\* the run has ended on an error
Failed == pc \in { "fatal", "crash" }

\* C1: a configuration in which any key of the card schema, or title_distribution,
\* is missing or empty is rejected by validation with a fatal error, before the
\* prompt and before any card is generated.
C1_AllPoolsValidated ==
    (fileState.status = "ok" /\ pc \notin { "load", "check" }
        /\ \E k \in SchemaKeys : ~Truthy(Get(fileState.content, k)))
    => pc = "fatal" /\ cards = << >>

C3_PositiveCount == Prompted => card_count > 0

\* C8: the deck holds exactly card_count cards; card i has number i and title
\* title_pool[i-1]; the title assignment precedes every field draw; the cards are
\* generated in increasing order, each drawing its pools in the slot order.
C8_DeckOrder ==
    (pc \in { "generate", "docx", "done" })
    => /\ Len(cards) <= card_count
       /\ Len(title_pool) = card_count
       /\ pc \in { "docx", "done" } => Len(cards) = card_count
       /\ \A i \in 1..Len(cards) :
             /\ cards[i]["number"] = PyInt(i)
             /\ cards[i]["title"] = PyStr(title_pool[i])
       /\ drawLog = << [call |-> "build_title_pool"] >>
                    \o Concat([i \in 1..Len(cards) |->
                          [j \in 1..Len(SlotOrder) |->
                              [call |-> "select", card |-> i, key |-> SlotOrder[j]]]])

\* a run has ended with a deck of two cards of different titles
C8_Witness ==
    /\ pc = "done" /\ card_count = 2 /\ Len(cards) = 2
    /\ cards[1]["title"] # cards[2]["title"]
    /\ Len(output) = 2

===========================================================================
